---- MODULE Spec2Model ----
(***************************************************************************)
(* Model of the job-listing ingestion pipeline of linkedinscraper          *)
(* (src/main.py, src/scrapers/*.py): scrape, dedup, filter, sync to the    *)
(* accepted and rejected tables, retention cleanup.                        *)
(*                                                                         *)
(* Text is modelled as sequences of character codes (ASCII), so that       *)
(* str.lower(), the `in` substring test and the ordering of strings are    *)
(* computed, not assumed.  The `location` field of a card is carried by    *)
(* the code but read by no operation modelled here, and is left out.       *)
(***************************************************************************)
EXTENDS Integers, Sequences, FiniteSets, TLC

VARIABLES
    now,            \* wall clock (datetime.now()), in ticks
    jobs,           \* the accepted table   (config['jobs_tablename'])
    filtered_jobs,  \* the rejected table   (config['filtered_jobs_tablename'])
    config_json,    \* the contents of config.json
    runs,           \* number of pipeline runs so far
    scraped,        \* number of cards scraped so far, over all runs
    last,           \* the last run: what it was given and main()'s locals at its end
    classified,     \* cards that some run has put in jobs_to_add or filtered_list
    source,         \* the external source, when it answers every run alike
    dd_in,          \* remove_duplicates: the list it was called with
    dd_out,         \* remove_duplicates: the list it returned
    ret_call,       \* hide_old_unapplied_jobs on its own: the table before the call, the time
    sv_call,        \* verify_jobs_table_schema on its own: the table before the call
    fetch,          \* get_with_retry on its own: the call in progress
    crawl,          \* a run seen request by request: the loops of get_job_cards and of main
    ui              \* the web UI: search_status and the requests being handled

vars == <<now, jobs, filtered_jobs, config_json, runs, scraped, last, classified,
          source, dd_in, dd_out, ret_call, sv_call, fetch, crawl, ui>>

(***************************************************************************)
(* Bounds of the model.                                                    *)
(***************************************************************************)
MaxRuns == 3        \* pipeline runs in one behaviour
MaxCards == 2       \* cards returned by one scrape
MaxScraped == 3     \* cards returned by all the scrapes of one behaviour
MaxNow == 2         \* last tick of the clock
MaxBatch == 3       \* length of the lists remove_duplicates is tried on
MaxRows == 2        \* rows of the accepted table retention cleanup is tried on
MaxRetries == 3     \* largest `retries` get_with_retry is called with

(***************************************************************************)
(* Values.                                                                 *)
(***************************************************************************)
Null == 0 - 1               \* SQL NULL / pandas NaN / Python None in a numeric place
NoRun == [ran |-> FALSE]
NotCalled == [called |-> FALSE, result |-> <<>>]
AnySource == [fixed |-> FALSE]
NoCall == [called |-> FALSE]
NoFetch == [started |-> FALSE]
NoCrawl == [started |-> FALSE]
NoUi == [started |-> FALSE]

Range(s) == {s[i] : i \in DOMAIN s}

\* ---- text -------------------------------------------------------------
LowerChar(c) == IF c \in 65..90 THEN c + 32 ELSE c
Lower(s) == [i \in DOMAIN s |-> LowerChar(s[i])]

\* Python `w in s` on strings
Contains(w, s) ==
    \E i \in 0..(Len(s) - Len(w)) : SubSeq(s, i + 1, i + Len(w)) = w

\* Python `a < b` on strings: lexicographic on code points
StrLess(a, b) ==
    \E k \in 1..(Len(b)) :
        /\ k <= Len(a) + 1
        /\ \A j \in 1..(k - 1) : a[j] = b[j]
        /\ (k = Len(a) + 1 \/ a[k] < b[k])

S_Dev == <<68, 101, 118>>                       \* "Dev"
S_QA == <<81, 65>>                              \* "QA"
S_Acme == <<65, 99, 109, 101>>                  \* "Acme"
S_Beta == <<66, 101, 116, 97>>                  \* "Beta"
S_Empty == <<>>                                 \* ""
U_1 == <<117, 49>>                              \* a job_url
U_2 == <<117, 50>>                              \* another job_url
W_Gig == <<71, 105, 103>>                       \* "Gig"   (a desc_words entry)
W_qa == <<113, 97>>                             \* "qa"    (a title word)
W_dev == <<100, 101, 118>>                      \* "dev"
W_beta == <<98, 101, 116, 97>>                  \* "beta"
D_Banned == <<97, 32, 103, 73, 71>>             \* "a gIG" (english, holds the banned word)
D_Fr == <<111, 117, 105>>                       \* "oui"   (french)
D_Clean == <<111, 107>>                         \* "ok"    (english)
CouldNotFetch == <<33, 102, 101, 116, 99, 104>> \* "Could not fetch job description"
CouldNotFind == <<33, 102, 105, 110, 100>>      \* "Could not find Job Description"

\* ---- dates ------------------------------------------------------------
\* A date string: "" , a YYYY-MM-DD string of day `day`, or any other text.
DateEmpty == [kind |-> "empty", day |-> 0]
DateIso(d) == [kind |-> "iso", day |-> d]
DateText(d) == [kind |-> "text", day |-> d]
TicksPerDay == 1

\* ---- jobs -------------------------------------------------------------
\* _transform_search_results: the dict built for one card
RawCard(t, c, d, u) ==
    [title |-> t, company |-> c, date |-> d, job_url |-> u,
     job_description |-> S_Empty,
     applied |-> 0, hidden |-> 0, interview |-> 0, rejected |-> 0]

\* BaseScraper.normalize_job
normalize_job(job) ==
    [title |-> job.title, company |-> job.company, date |-> job.date,
     job_url |-> job.job_url, job_description |-> job.job_description,
     source |-> "linkedin",
     applied |-> job.applied, hidden |-> job.hidden,
     interview |-> job.interview, rejected |-> job.rejected]

\* ---- remove_duplicates ------------------------------------------------
\* the sort key (x['title'], x['company']) and Python's order on such tuples
KeyOf(job) == <<job.title, job.company>>
KeyLess(a, b) == StrLess(a[1], b[1]) \/ (a[1] = b[1] /\ StrLess(a[2], b[2]))

\* list.sort(key=...) is stable: x goes after every element whose key is <= its key
RECURSIVE InsertSorted(_, _)
InsertSorted(x, s) ==
    IF s = <<>> THEN <<x>>
    ELSE IF KeyLess(KeyOf(x), KeyOf(Head(s))) THEN <<x>> \o s
    ELSE <<Head(s)>> \o InsertSorted(x, Tail(s))

RECURSIVE SortByKeyFrom(_, _)
SortByKeyFrom(s, acc) ==
    IF s = <<>> THEN acc ELSE SortByKeyFrom(Tail(s), InsertSorted(Head(s), acc))

\* a sort that is not stable: equal keys come out in reverse order
UnstableSortByKey(s) ==
    LET RECURSIVE Ins(_, _)
        Ins(x, t) == IF t = <<>> THEN <<x>>
                     ELSE IF ~KeyLess(KeyOf(Head(t)), KeyOf(x)) THEN <<x>> \o t
                     ELSE <<Head(t)>> \o Ins(x, Tail(t))
        RECURSIVE Go(_, _)
        Go(t, acc) == IF t = <<>> THEN acc ELSE Go(Tail(t), Ins(Head(t), acc))
    IN Go(s, <<>>)
SortByKey(s) == SortByKeyFrom(s, <<>>)

\* [next(g) for k, g in groupby(joblist, key)]: the first of every run of equal keys
GroupFirsts(s) ==
    LET keep == {i \in DOMAIN s : i = 1 \/ KeyOf(s[i]) # KeyOf(s[i - 1])}
        RECURSIVE Pick(_)
        Pick(i) == IF i > Len(s) THEN <<>>
                   ELSE IF i \in keep THEN <<s[i]>> \o Pick(i + 1)
                   ELSE Pick(i + 1)
    IN Pick(1)

remove_duplicates(joblist) == GroupFirsts(SortByKey(joblist))

\* ---- remove_irrelevant_jobs -------------------------------------------
\* langdetect.detect: raises LangDetectException on a text without features
detect(text) ==
    IF text = S_Empty THEN "LangDetectException"
    ELSE IF text = D_Fr THEN "fr"
    ELSE "en"

safe_detect(text) ==
    IF detect(text) = "LangDetectException" THEN "en" ELSE detect(text)

\* any(word.lower() in text.lower() for word in words)
\* the same test without .lower()
AnyWordInExact(words, text) ==
    \E i \in DOMAIN words : Contains(words[i], text)
AnyWordIn(words, text) ==
    \E i \in DOMAIN words : Contains(Lower(words[i]), Lower(text))

DropByDescription(joblist, config) ==
    SelectSeq(joblist, LAMBDA job : ~AnyWordIn(config.desc_words, job.job_description))

remove_irrelevant_jobs(joblist, config) ==
    LET l1 == DropByDescription(joblist, config)
        l2 == IF Len(config.title_exclude) > 0
              THEN SelectSeq(l1, LAMBDA job : ~AnyWordIn(config.title_exclude, job.title))
              ELSE l1
        l3 == IF Len(config.title_include) > 0
              THEN SelectSeq(l2, LAMBDA job : AnyWordIn(config.title_include, job.title))
              ELSE l2
        l4 == IF Len(config.languages) > 0
              THEN SelectSeq(l3, LAMBDA job :
                       safe_detect(job.job_description) \in Range(config.languages))
              ELSE l3
        l5 == IF Len(config.company_exclude) > 0
              THEN SelectSeq(l4, LAMBDA job : ~AnyWordIn(config.company_exclude, job.company))
              ELSE l4
    IN l5

\* get_jobcards without its call of remove_irrelevant_jobs
GetJobcardsUnfiltered(config, cards) ==
    remove_duplicates([i \in DOMAIN cards |-> normalize_job(cards[i])])

\* ---- get_jobcards -----------------------------------------------------
\* `cards` is what LinkedInScraper.get_job_cards returned
get_jobcards(config, cards) ==
    LET all_jobs == [i \in DOMAIN cards |-> normalize_job(cards[i])]
    IN remove_irrelevant_jobs(remove_duplicates(all_jobs), config)

\* ---- convert_date_format ----------------------------------------------
\* datetime.strptime(date_string, "%Y-%m-%d").date(), None on ValueError;
\* the result is the day number
convert_date_format(date_string) ==
    IF date_string.kind = "iso" THEN date_string.day ELSE Null

\* ---- the detail fetch -------------------------------------------------
\* What get_with_retry(job_url) gives: None, or the parsed page
RespNone == [kind |-> "none", div |-> FALSE, text |-> S_Empty]
RespPage(text) == [kind |-> "page", div |-> TRUE, text |-> text]
RespNoDiv == [kind |-> "page", div |-> FALSE, text |-> S_Empty]
\* ... or get_job_description raises while it parses the page
RespRaise == [kind |-> "raise", div |-> FALSE, text |-> S_Empty]

\* LinkedInScraper._transform_job_description
transform_job_description(soup) ==
    IF soup.div THEN soup.text ELSE CouldNotFind

\* LinkedInScraper.get_job_description; requests.get('') raises MissingSchema,
\* which get_with_retry catches on every attempt
get_job_description(job_url, resp) ==
    LET soup == IF job_url = S_Empty THEN RespNone ELSE resp
    IN IF soup.kind = "none" THEN CouldNotFetch ELSE transform_job_description(soup)

\* ---- tables -----------------------------------------------------------
\* A table: whether it exists, its columns, its rows in id order.  A row is a
\* record with every field; a field whose column the table lacks is unused.
NoTable == [exists |-> FALSE, cols |-> {}, rows |-> <<>>]
KeyCols == {"title", "company", "date"}
JobCols == {"title", "company", "date", "job_url", "job_description", "source",
            "applied", "hidden", "interview", "rejected"}

\* date_loaded values: str(datetime.now()) is "%Y-%m-%d %H:%M:%S.%f" of tick t
Stamp(fmt, t) == [fmt |-> fmt, t |-> t]
StampNow(t) == Stamp("ymd_hms_f", t)

\* the DataFrame main() builds from a list of jobs (main.py 479-484): its
\* columns and its records
DfCols(joblist) == IF joblist = <<>> THEN {"date_loaded"} ELSE JobCols \cup {"date_loaded"}
DfRecord(job, t) ==
    [id |-> Null, title |-> job.title, company |-> job.company, date |-> job.date,
     job_url |-> job.job_url, job_description |-> job.job_description,
     source |-> job.source, applied |-> job.applied, hidden |-> job.hidden,
     interview |-> job.interview, rejected |-> job.rejected,
     date_loaded |-> StampNow(t), saved |-> Null]
DataFrame(joblist, t) == [i \in DOMAIN joblist |-> DfRecord(joblist[i], t)]

Triple(r) == <<r.title, r.company, r.date>>
Ids(table) == {table.rows[i].id : i \in DOMAIN table.rows}

\* INSERT of the records, in order, with AUTOINCREMENT ids
AppendRows(table, recs) ==
    [table EXCEPT !.rows =
        table.rows \o [i \in DOMAIN recs |-> [recs[i] EXCEPT !.id = Len(table.rows) + i]]]

\* table_exists
\* a lookup that finds no table
TableExistsNever(table) == FALSE
table_exists(table) == table.exists

\* create_table: CREATE TABLE IF NOT EXISTS with the DataFrame's columns, then
\* one INSERT per record
create_table(table, df, dfcols) ==
    LET made == IF table.exists THEN table
                ELSE [exists |-> TRUE, cols |-> {"id"} \cup dfcols, rows |-> <<>>]
    IN [raised |-> FALSE, table |-> AppendRows(made, df)]

\* update_table.  pd.concat([df, df_existing, df_existing]) has the columns of
\* both frames; drop_duplicates raises KeyError when a key column is missing;
\* keep=False leaves the records of df whose key occurs once in df and not in
\* the table; to_sql(if_exists='append') raises when the table lacks a column
\* of the frame, and inserts nothing then.
NewRecords(table, df) ==
    SelectSeq(df, LAMBDA r :
        /\ Cardinality({i \in DOMAIN df : Triple(df[i]) = Triple(r)}) = 1
        /\ \A j \in DOMAIN table.rows : Triple(table.rows[j]) # Triple(r))

\* to_sql(if_exists='replace') of the batch
ReplaceRecords(table, df, dfcols) ==
    [raised |-> FALSE, table |-> [table EXCEPT !.rows = [i \in DOMAIN df |-> [df[i] EXCEPT !.id = i]]]]
update_table(table, df, dfcols) ==
    LET cols == dfcols \cup table.cols
        df_new_records == NewRecords(table, df)
    IN IF ~(KeyCols \subseteq cols) THEN [raised |-> TRUE, table |-> table]
       ELSE IF Len(df_new_records) > 0
            THEN IF cols \subseteq table.cols
                 THEN [raised |-> FALSE, table |-> AppendRows(table, df_new_records)]
                 ELSE [raised |-> TRUE, table |-> table]
            ELSE [raised |-> FALSE, table |-> table]

\* main.py 495-498 / 501-504
CreateOrUpdate(table, df, dfcols) ==
    IF table_exists(table) THEN update_table(table, df, dfcols)
    ELSE create_table(table, df, dfcols)

\* main.py 491-510: both tables inside one try; an exception on the accepted
\* table leaves the rejected table untouched
SaveBoth(jt, ft, jobs_to_add, filtered_list, t) ==
    LET a == CreateOrUpdate(jt, DataFrame(jobs_to_add, t), DfCols(jobs_to_add))
        f == CreateOrUpdate(ft, DataFrame(filtered_list, t), DfCols(filtered_list))
    IN IF a.raised THEN [jobs |-> jt, filtered |-> ft, raised |-> TRUE]
       ELSE [jobs |-> a.table, filtered |-> IF f.raised THEN ft ELSE f.table,
             raised |-> f.raised]

\* DROP TABLE and CREATE TABLE with the source column
VerifyByRecreating(table) ==
    IF table.exists /\ "source" \notin table.cols
    THEN [table EXCEPT !.cols = @ \cup {"source"}, !.rows = <<>>]
    ELSE table
\* verify_jobs_table_schema: ALTER TABLE ... ADD COLUMN source TEXT DEFAULT 'linkedin'
verify_jobs_table_schema(table) ==
    IF table.exists /\ "source" \notin table.cols
    THEN [table EXCEPT !.cols = @ \cup {"source"},
                       !.rows = [i \in DOMAIN @ |-> [@[i] EXCEPT !.source = "linkedin"]]]
    ELSE table

\* job_exists
\* the job_url half of the test alone
JobExistsUrlOnly(rows, job) ==
    IF rows = <<>> THEN FALSE
    ELSE \E i \in DOMAIN rows : rows[i].job_url = job.job_url
\* the (title, company, date) half of the test alone
JobExistsTripleOnly(rows, job) ==
    IF rows = <<>> THEN FALSE
    ELSE \E i \in DOMAIN rows : /\ rows[i].title = job.title
                                /\ rows[i].company = job.company
                                /\ rows[i].date = job.date
job_exists(rows, job) ==
    IF rows = <<>> THEN FALSE
    ELSE \/ \E i \in DOMAIN rows : rows[i].job_url = job.job_url
         \/ \E i \in DOMAIN rows : /\ rows[i].title = job.title
                                   /\ rows[i].company = job.company
                                   /\ rows[i].date = job.date

\* find_new_jobs
\* a scan of the accepted table alone
FindNewJobsAcceptedOnly(all_jobs, jt, ft) ==
    SelectSeq(all_jobs, LAMBDA job : ~job_exists(IF jt.exists THEN jt.rows ELSE <<>>, job))
find_new_jobs(all_jobs, jt, ft) ==
    LET jobs_db == IF table_exists(jt) THEN jt.rows ELSE <<>>
        filtered_jobs_db == IF table_exists(ft) THEN ft.rows ELSE <<>>
    IN SelectSeq(all_jobs, LAMBDA job :
           ~job_exists(jobs_db, job) /\ ~job_exists(filtered_jobs_db, job))

\* ---- hide_old_unapplied_jobs ------------------------------------------
\* datetime.strptime over the three formats tried in order; None (Null) when
\* none matches.  A "%Y-%m-%d" string holds a day and parses to its midnight.
\* strptime with the first format alone
ParseFirstFormatOnly(s) == IF s.fmt = "ymd_hms" THEN s.t ELSE Null
ParseDateLoaded(s) ==
    IF s.fmt \in {"ymd_hms", "ymd_hms_f"} THEN s.t
    ELSE IF s.fmt = "ymd" THEN s.t * TicksPerDay
    ELSE Null

\* the WHERE clause of the SELECT (main.py 277-293)
Selected(table, r) ==
    /\ r.applied = 0
    /\ ("saved" \in table.cols => r.saved = 0)
    /\ (r.hidden = 0 \/ r.hidden = Null)
    /\ r.date_loaded.fmt # "null"
    /\ r.date_loaded.fmt # "empty"

\* the ids the loop collects (main.py 295-318)
\* the loop without the comparison to cutoff_date
JobsToHideNoCutoff(table, cutoff_date) ==
    {table.rows[i].id : i \in {j \in DOMAIN table.rows : Selected(table, table.rows[j])}}
JobsToHide(table, cutoff_date) ==
    {table.rows[i].id : i \in {j \in DOMAIN table.rows :
        /\ Selected(table, table.rows[j])
        /\ ParseDateLoaded(table.rows[j].date_loaded) # Null
        /\ ParseDateLoaded(table.rows[j].date_loaded) < cutoff_date}}

\* an UPDATE that also clears the interview and rejected flags
HideRowsResettingFlags(table, ids) ==
    [table EXCEPT !.rows = [i \in DOMAIN @ |->
        IF @[i].id \in ids
        THEN [@[i] EXCEPT !.hidden = 1, !.interview = 0, !.rejected = 0]
        ELSE @[i]]]
\* UPDATE ... SET hidden = 1 WHERE id IN (...)
HideRows(table, ids) ==
    [table EXCEPT !.rows = [i \in DOMAIN @ |->
        IF @[i].id \in ids THEN [@[i] EXCEPT !.hidden = 1] ELSE @[i]]]

\* hide_old_unapplied_jobs(conn, config) at time t; a SELECT that names a
\* column the table lacks raises, and the function returns 0 from its handler
hide_old_unapplied_jobs(table, config, t) ==
    IF config.delete_unapplied_jobs_after_days <= 0 THEN table
    ELSE IF "date_loaded" \notin table.cols THEN table
    ELSE IF ~({"id", "applied", "hidden"} \subseteq table.cols) THEN table
    ELSE HideRows(table,
            JobsToHide(table, t - config.delete_unapplied_jobs_after_days * TicksPerDay))

\* ---- main -------------------------------------------------------------
CardOf(job) == RawCard(job.title, job.company, job.date, job.job_url)

\* the loop body with the detail fetch ahead of the date checks
ProcessJobFetchFirst(job, config, resp, t) ==
    LET job_date == convert_date_format(job.date)
        desc == get_job_description(job.job_url, resp)
        bad_date == \/ job.date.kind = "empty"
                    \/ job_date = Null
                    \/ job_date * TicksPerDay < t - config.days_to_scrape * TicksPerDay
    IN IF bad_date \/ desc = S_Empty \/ desc = CouldNotFetch
       THEN [fetched |-> TRUE, kept |-> FALSE, error |-> FALSE, job |-> job]
       ELSE [fetched |-> TRUE, kept |-> TRUE, error |-> FALSE,
             job |-> [job EXCEPT !.job_description = desc]]
\* the loop body without the check at main.py 434
ProcessJobKeepUnfetched(job, config, resp, t) ==
    LET job_date == convert_date_format(job.date)
        desc == get_job_description(job.job_url, resp)
        skip == [fetched |-> FALSE, kept |-> FALSE, error |-> FALSE, job |-> job]
    IN IF job.date.kind = "empty" THEN skip
       ELSE IF job_date = Null THEN skip
       ELSE IF job_date * TicksPerDay < t - config.days_to_scrape * TicksPerDay THEN skip
       ELSE [fetched |-> TRUE, kept |-> TRUE, error |-> FALSE,
             job |-> [job EXCEPT !.job_description = desc]]
\* one pass of the loop body (main.py 403-456) for `job`, the detail fetch
\* answering `resp`: whether the detail page was requested, whether the
\* pass raised, whether the job was appended to job_list, and the job as
\* appended
ProcessJob(job, config, resp, t) ==
    LET job_date == convert_date_format(job.date)
        desc == get_job_description(job.job_url, resp)
        skip == [fetched |-> FALSE, kept |-> FALSE, error |-> FALSE, job |-> job]
    IN IF job.date.kind = "empty" THEN skip
       ELSE IF job_date = Null THEN skip
       ELSE IF job_date * TicksPerDay < t - config.days_to_scrape * TicksPerDay THEN skip
       ELSE IF resp.kind = "raise" /\ job.job_url # S_Empty
            THEN [fetched |-> TRUE, kept |-> FALSE, error |-> TRUE, job |-> job]
       ELSE IF desc = S_Empty \/ desc = CouldNotFetch
            THEN [fetched |-> TRUE, kept |-> FALSE, error |-> FALSE, job |-> job]
            ELSE [fetched |-> TRUE, kept |-> TRUE, error |-> FALSE,
                  job |-> [job EXCEPT !.job_description = desc]]

\* the loop that stops at the first job whose processing raises
ProcessUntilError(new_jobs, config, resp, t) ==
    [i \in DOMAIN new_jobs |->
        IF \E k \in 1..(i - 1) :
              ProcessJob(new_jobs[k], config, resp[CardOf(new_jobs[k])], t).error
        THEN [fetched |-> FALSE, kept |-> FALSE, error |-> FALSE, job |-> new_jobs[i]]
        ELSE ProcessJob(new_jobs[i], config, resp[CardOf(new_jobs[i])], t)]
\* for idx, job in enumerate(all_jobs, 1): try ... except Exception: continue
ProcessAll(new_jobs, config, resp, t) ==
    [i \in DOMAIN new_jobs |-> ProcessJob(new_jobs[i], config, resp[CardOf(new_jobs[i])], t)]

\* ---- what can fail in a run, besides a detail fetch ----------------------
\* "none"; "scrape": get_jobcards raises; "db": create_connection returns None;
\* "filter": the final remove_irrelevant_jobs raises; "frames": building the
\* DataFrames raises; "csv": to_csv raises
Faults == {"none", "scrape", "db", "filter", "frames", "csv"}

\* main.py 367-373: except Exception ... return
ScrapeFailureIgnored(fault) == FALSE
AbortsAfterScrape(fault) == fault = "scrape"
\* main.py 376-381: if conn ... else ... return
ConnectFailureIgnored(fault) == FALSE
AbortsAfterConnect(fault) == fault = "db"

\* main.py 525-528: the number of calls of hide_old_unapplied_jobs
CleanupCallsOnlyAfterSync(config, new_jobs) ==
    IF config.delete_unapplied_jobs_after_days > 0 /\ Len(new_jobs) > 0 THEN 1 ELSE 0
CleanupCalls(config, new_jobs) ==
    IF config.delete_unapplied_jobs_after_days > 0 THEN 1 ELSE 0

\* the steps a run goes through, in the order of its progress output
StepsOf(new_jobs, fault, calls) ==
    <<"scrape", "connect", "verify", "find_new">>
    \o (IF Len(new_jobs) > 0
        THEN <<"process", "filter">>
             \o (IF fault = "frames" THEN <<>> ELSE <<"save", "csv">>)
        ELSE <<>>)
    \o (IF calls > 0 THEN <<"cleanup">> ELSE <<>>)
    \o <<"summary">>

\* ---- the inputs of a run ----------------------------------------------
Config(desc_words, title_exclude, title_include, languages, company_exclude, days_to_scrape, days) ==
    [desc_words |-> desc_words, title_exclude |-> title_exclude,
     title_include |-> title_include, languages |-> languages,
     company_exclude |-> company_exclude,
     days_to_scrape |-> days_to_scrape, delete_unapplied_jobs_after_days |-> days]

EmptyConfig == Config(<<>>, <<>>, <<>>, <<>>, <<>>, 1, 0)

Configs ==
    { EmptyConfig,
      Config(<<W_Gig>>, <<>>, <<>>, <<>>, <<>>, 2, 1),
      Config(<<W_Gig>>, <<W_qa>>, <<>>, <<"en">>, <<>>, 1, 1),
      Config(<<W_Gig>>, <<>>, <<W_dev>>, <<>>, <<W_beta>>, 1, 0) }

\* two cards of one url, two cards of one (title, company, date), a card
\* without date and url
CardPool ==
    { RawCard(S_Dev, S_Acme, DateIso(0), U_1),
      RawCard(S_QA, S_Acme, DateIso(0), U_1),
      RawCard(S_Dev, S_Acme, DateIso(0), U_2),
      RawCard(S_QA, S_Beta, DateEmpty, S_Empty) }

SeqsUpTo(S, n) == UNION {[1..k -> S] : k \in 0..n}
Responses == {RespNone, RespNoDiv, RespPage(D_Banned), RespPage(D_Fr)}

\* ---- the pipeline -----------------------------------------------------
Init ==
    /\ now = 0
    /\ jobs = NoTable
    /\ filtered_jobs = NoTable
    /\ config_json \in Configs
    /\ runs = 0
    /\ crawl = NoCrawl
    /\ ui = NoUi
    /\ scraped = 0
    /\ last = NoRun
    /\ classified = {}
    /\ source = AnySource
    /\ dd_in = <<>>
    /\ dd_out = NotCalled
    /\ ret_call = NoCall
    /\ sv_call = NoCall
    /\ fetch = NoFetch

\* the list comprehension at main.py 478
FilteredList(job_list, jobs_to_add) ==
    SelectSeq(job_list, LAMBDA job : job \notin Range(jobs_to_add))

\* the rows of `after` whose hidden differs from `before` (same rows, same order)
HiddenBy(before, after) ==
    {after.rows[i].id : i \in {j \in DOMAIN after.rows :
                                after.rows[j].hidden # before.rows[j].hidden}}

\* what a run that stopped at a `return` leaves in `last`
AbortedRun(cards, resp, fault, t, all_jobs, steps) ==
    [ran |-> TRUE, cards |-> cards, resp |-> resp, t |-> t, fault |-> fault,
     ended |-> "abort", steps |-> steps,
     all_jobs |-> all_jobs, new_jobs |-> <<>>, fetched |-> <<>>, errors |-> <<>>,
     job_list |-> <<>>, jobs_to_add |-> <<>>, filtered_list |-> <<>>,
     save_raised |-> FALSE, csv |-> FALSE, cleanup_calls |-> 0,
     added |-> {}, added_filtered |-> {}, hid |-> {}]

\* python main.py: one whole run of main(config_file).  The scrape returns
\* `cards`; the detail fetch of a card is answered by resp[card]; `fault` is
\* what else fails.  Each line binds one local of main() in the order the
\* code computes it.
MainRun(cards, resp, fault) ==
    /\ runs < MaxRuns
    /\ IF AbortsAfterScrape(fault)                                         \* 367-373
       THEN /\ last' = AbortedRun(cards, resp, fault, now, <<>>, <<"scrape">>)
            /\ UNCHANGED <<jobs, filtered_jobs, classified>>
       ELSE IF AbortsAfterConnect(fault)                                   \* 376-381
       THEN /\ last' = AbortedRun(cards, resp, fault, now,
                                  get_jobcards(config_json, cards), <<"scrape", "connect">>)
            /\ UNCHANGED <<jobs, filtered_jobs, classified>>
       ELSE
       \E all_jobs \in {get_jobcards(config_json, cards)} :                 \* 368
       \E jv \in {verify_jobs_table_schema(jobs)} :                         \* 385
       \E fv \in {verify_jobs_table_schema(filtered_jobs)} :                \* 386
       \E new_jobs \in {find_new_jobs(all_jobs, jv, fv)} :                  \* 391
       \E done \in {ProcessAll(new_jobs, config_json, resp, now)} :         \* 403-456
       \E kept \in {SelectSeq(done, LAMBDA d : d.kept)} :
       \E job_list \in {[i \in DOMAIN kept |-> kept[i].job]} :
       \E jobs_to_add \in {IF fault = "filter" THEN job_list                \* 466-474
                           ELSE remove_irrelevant_jobs(job_list, config_json)} :
       \E filtered_list \in {FilteredList(job_list, jobs_to_add)} :         \* 478
       \E sync \in {IF Len(new_jobs) > 0 /\ fault # "frames"                \* 395, 485-510
                    THEN SaveBoth(jv, fv, jobs_to_add, filtered_list, now)
                    ELSE [jobs |-> jv, filtered |-> fv, raised |-> FALSE]} :
       \E calls \in {CleanupCalls(config_json, new_jobs)} :                 \* 525-526
       \E cleaned \in {IF calls > 0                                         \* 528
                       THEN hide_old_unapplied_jobs(sync.jobs, config_json, now)
                       ELSE sync.jobs} :
          /\ jobs' = cleaned
          /\ filtered_jobs' = sync.filtered
          /\ last' = [ran |-> TRUE, cards |-> cards, resp |-> resp, t |-> now,
                      fault |-> fault, ended |-> "normal",
                      steps |-> StepsOf(new_jobs, fault, calls),
                      all_jobs |-> all_jobs, new_jobs |-> new_jobs,
                      fetched |-> [i \in DOMAIN done |-> done[i].fetched],
                      errors |-> [i \in DOMAIN done |-> done[i].error],
                      job_list |-> job_list, jobs_to_add |-> jobs_to_add,
                      filtered_list |-> filtered_list, save_raised |-> sync.raised,
                      csv |-> (Len(new_jobs) > 0 /\ fault \notin {"frames", "csv"}), \* 512-520
                      cleanup_calls |-> calls,
                      added |-> Ids(sync.jobs) \ Ids(jobs),
                      added_filtered |-> Ids(sync.filtered) \ Ids(filtered_jobs),
                      hid |-> HiddenBy(sync.jobs, cleaned)]
          /\ classified' = classified \cup
                 {CardOf(j) : j \in Range(jobs_to_add) \cup Range(filtered_list)}
    /\ runs' = runs + 1
    /\ scraped' = scraped + Len(cards)
    /\ UNCHANGED <<now, config_json, source, dd_in, dd_out, ret_call, sv_call, fetch, crawl, ui>>

\* a run in which nothing fails but, possibly, detail fetches
MainWith(cards, resp) == MainRun(cards, resp, "none")

\* a run against a source that may answer every run differently
Main ==
    \E cards \in SeqsUpTo(CardPool, MaxCards) :
       /\ scraped + Len(cards) <= MaxScraped
       /\ \E resp \in [Range(cards) -> Responses] : MainWith(cards, resp)

\* time passes between runs
Tick ==
    /\ now < MaxNow
    /\ now' = now + 1
    /\ UNCHANGED <<jobs, filtered_jobs, config_json, runs, scraped, last, classified,
                   source, dd_in, dd_out, ret_call, sv_call, fetch, crawl, ui>>

Next == Main \/ Tick

Spec == Init /\ [][Next]_vars

\* ---- the pipeline against an unchanged source -------------------------
Sources ==
    UNION {{[fixed |-> TRUE, cards |-> cards, resp |-> resp] :
                resp \in [Range(cards) -> Responses]} :
           cards \in SeqsUpTo(CardPool, MaxCards)}

\* the table a run leaves behind when it creates it from an empty batch
EmptyBatchTable == create_table(NoTable, <<>>, DfCols(<<>>)).table

InitIdem ==
    /\ now = 0
    /\ jobs \in {NoTable, EmptyBatchTable}
    /\ filtered_jobs \in {NoTable, EmptyBatchTable}
    /\ config_json \in Configs
    /\ runs = 0
    /\ crawl = NoCrawl
    /\ ui = NoUi
    /\ scraped = 0
    /\ last = NoRun
    /\ classified = {}
    /\ source \in Sources
    /\ dd_in = <<>>
    /\ dd_out = NotCalled
    /\ ret_call = NoCall
    /\ sv_call = NoCall
    /\ fetch = NoFetch

\* a run against the source that returns the same cards and detail pages
MainSame == MainWith(source.cards, source.resp)

NextIdem == MainSame \/ Tick

SpecIdem == InitIdem /\ [][NextIdem]_vars

\* ---- the pipeline when steps of a run fail -----------------------------
\* two cards that share nothing, a card whose date is not YYYY-MM-DD, a card
\* without date and url
FaultCardPool ==
    { RawCard(S_Dev, S_Acme, DateIso(0), U_1),
      RawCard(S_QA, S_Acme, DateIso(0), U_2),
      RawCard(S_QA, S_Beta, DateText(0), U_2),
      RawCard(S_QA, S_Beta, DateEmpty, S_Empty) }

FaultConfigs ==
    {Config(<<W_Gig>>, <<>>, <<>>, <<>>, <<>>, 1, d) : d \in {0 - 1, 0, 1}}

FaultResponses == {RespNone, RespRaise, RespNoDiv, RespPage(D_Banned)}

InitFaults ==
    /\ now = 0
    /\ jobs = NoTable
    /\ filtered_jobs = NoTable
    /\ config_json \in FaultConfigs
    /\ runs = 0
    /\ crawl = NoCrawl
    /\ ui = NoUi
    /\ scraped = 0
    /\ last = NoRun
    /\ classified = {}
    /\ source = AnySource
    /\ dd_in = <<>>
    /\ dd_out = NotCalled
    /\ ret_call = NoCall
    /\ sv_call = NoCall
    /\ fetch = NoFetch

\* the batches: the order of cards that differ in title or company is lost
\* in remove_duplicates, so one order of each set of cards is tried
FaultBatches ==
    {CHOOSE q \in [1..Cardinality(S) -> S] : Range(q) = S :
        S \in {T \in SUBSET FaultCardPool : Cardinality(T) <= MaxCards}}

\* the cards of the batch that are new jobs with a date inside the window:
\* the jobs for which the loop requests a detail page when it gets to them
FetchableCards(cards) ==
    LET new_jobs == find_new_jobs(get_jobcards(config_json, cards),
                                  verify_jobs_table_schema(jobs),
                                  verify_jobs_table_schema(filtered_jobs))
    IN {CardOf(new_jobs[i]) :
           i \in {k \in DOMAIN new_jobs :
                     /\ new_jobs[k].date.kind = "iso"
                     /\ new_jobs[k].date.day * TicksPerDay
                           >= now - config_json.days_to_scrape * TicksPerDay}}

\* a run in which a detail fetch may raise and, when the batch holds a job
\* to fetch, one of the steps after the loop may fail; the response to a
\* card that is not such a job is left out (None)
MainFaulty ==
    \E cards \in FaultBatches :
       /\ scraped + Len(cards) <= MaxScraped
       /\ \E fetchable \in {FetchableCards(cards)} :
          \E resp \in [Range(cards) -> FaultResponses] :
             /\ \A c \in Range(cards) \ fetchable : resp[c] = RespNone
             /\ \E fault \in (IF fetchable = {} THEN {"none"} ELSE Faults \ {"scrape", "db"}) :
                   MainRun(cards, resp, fault)

\* a run whose scrape raises: no cards come back
MainScrapeFails == MainRun(<<>>, <<>>, "scrape")

\* a run that cannot open the database: no detail page is requested
MainConnectFails ==
    \E cards \in FaultBatches :
       /\ scraped + Len(cards) <= MaxScraped
       /\ MainRun(cards, [c \in Range(cards) |-> RespNone], "db")

NextFaults == MainFaulty \/ MainScrapeFails \/ MainConnectFails \/ Tick

SpecFaults == InitFaults /\ [][NextFaults]_vars

\* ---- remove_duplicates on its own -------------------------------------
DedupPool ==
    {normalize_job(RawCard(t, c, DateIso(d), u)) :
        t \in {S_Dev, S_QA}, c \in {S_Acme, S_Empty}, d \in {0, 1}, u \in {U_1, U_2}}

InitDedup ==
    /\ now = 0
    /\ jobs = NoTable
    /\ filtered_jobs = NoTable
    /\ config_json = EmptyConfig
    /\ runs = 0
    /\ crawl = NoCrawl
    /\ ui = NoUi
    /\ scraped = 0
    /\ last = NoRun
    /\ classified = {}
    /\ source = AnySource
    /\ dd_in \in SeqsUpTo(DedupPool, MaxBatch)
    /\ dd_out = NotCalled
    /\ ret_call = NoCall
    /\ sv_call = NoCall
    /\ fetch = NoFetch

RemoveDuplicates ==
    /\ ~dd_out.called
    /\ dd_out' = [called |-> TRUE, result |-> remove_duplicates(dd_in)]
    /\ UNCHANGED <<now, jobs, filtered_jobs, config_json, runs, scraped, last,
                   classified, source, dd_in, ret_call, sv_call, fetch, crawl, ui>>

NextDedup == RemoveDuplicates

SpecDedup == InitDedup /\ [][NextDedup]_vars

\* ---- hide_old_unapplied_jobs on its own -------------------------------
\* accepted tables as the UI, earlier versions and earlier runs leave them:
\* flags set or NULL, date_loaded in any format or missing, with and without
\* the saved and date_loaded columns
RetFlags ==
    { [applied |-> 0, saved |-> 0, hidden |-> 0],
      [applied |-> 1, saved |-> 0, hidden |-> 0],
      [applied |-> 0, saved |-> 1, hidden |-> 0],
      [applied |-> 0, saved |-> 0, hidden |-> 1],
      [applied |-> 0, saved |-> Null, hidden |-> 0],
      [applied |-> 0, saved |-> 0, hidden |-> Null] }

RetStamps ==
    { Stamp("null", 0), Stamp("empty", 0), Stamp("other", 0),
      Stamp("ymd", 0), Stamp("ymd_hms", 0), Stamp("ymd_hms_f", 0),
      Stamp("ymd_hms_f", MaxNow) }

RetRow(f, s) ==
    [DfRecord(normalize_job(RawCard(S_Dev, S_Acme, DateIso(0), U_1)), 0)
        EXCEPT !.applied = f.applied, !.saved = f.saved, !.hidden = f.hidden,
               !.date_loaded = s]

FullCols == {"id", "date_loaded", "saved"} \cup JobCols
RetCols == {FullCols, FullCols \ {"saved"}, FullCols \ {"date_loaded"}}

\* the rows a table of these columns can hold: every date_loaded on a row the
\* SELECT takes, an old and a recent date_loaded on the others
RetKinds(cols) ==
    {x \in {IF "saved" \in cols THEN f ELSE [f EXCEPT !.saved = Null] : f \in RetFlags}
              \X (IF "date_loaded" \in cols THEN RetStamps ELSE {Stamp("null", 0)}) :
        \/ (x[1].applied = 0 /\ x[1].saved \in {0, Null} /\ x[1].hidden = 0)
        \/ x[2] \in {Stamp("ymd_hms_f", 0), Stamp("ymd_hms_f", MaxNow), Stamp("null", 0)}}

RetTable(cols, k) ==
    [exists |-> TRUE, cols |-> cols,
     rows |-> [i \in DOMAIN k |-> [RetRow(k[i][1], k[i][2]) EXCEPT !.id = i]]]

RetConfigs == {[EmptyConfig EXCEPT !.delete_unapplied_jobs_after_days = d] : d \in {0 - 1, 0, 1}}

InitRetention ==
    /\ now = 0
    /\ \/ jobs = NoTable
       \/ \E cols \in RetCols : \E n \in 0..MaxRows : \E k \in [1..n -> RetKinds(cols)] :
             jobs = RetTable(cols, k)
    /\ filtered_jobs = NoTable
    /\ config_json \in RetConfigs
    /\ runs = 0
    /\ crawl = NoCrawl
    /\ ui = NoUi
    /\ scraped = 0
    /\ last = NoRun
    /\ classified = {}
    /\ source = AnySource
    /\ dd_in = <<>>
    /\ dd_out = NotCalled
    /\ ret_call = NoCall
    /\ sv_call = NoCall
    /\ fetch = NoFetch

\* the call at main.py 528
Cleanup ==
    /\ jobs' = hide_old_unapplied_jobs(jobs, config_json, now)
    /\ ret_call' = [called |-> TRUE, before |-> jobs, t |-> now]
    /\ UNCHANGED <<now, filtered_jobs, config_json, runs, scraped, last, classified,
                   source, dd_in, dd_out, sv_call, fetch, crawl, ui>>

NextRetention == Cleanup \/ Tick

SpecRetention == InitRetention /\ [][NextRetention]_vars

\* ---- verify_jobs_table_schema on its own ------------------------------
\* tables of the current schema, tables written before the source column
\* existed, tables created from an empty batch
SchemaCols == {FullCols, FullCols \ {"source"}, FullCols \ {"source", "saved"},
               {"id", "date_loaded"}}
SchemaSources(cols) == IF "source" \in cols THEN {"linkedin", "indeed"} ELSE {"absent"}

SchemaTable(cols, k, src) ==
    [exists |-> TRUE, cols |-> cols,
     rows |-> [i \in DOMAIN k |->
                 [RetRow(k[i][1], k[i][2]) EXCEPT !.id = i, !.source = src[i]]]]

InitSchema ==
    /\ now = 0
    /\ \/ jobs = NoTable
       \/ \E cols \in SchemaCols :
          \E n \in 0..(IF "title" \in cols THEN MaxRows ELSE 0) :
          \E k \in [1..n -> RetKinds(cols)] :
          \E src \in [1..n -> SchemaSources(cols)] :
             jobs = SchemaTable(cols, k, src)
    /\ filtered_jobs = NoTable
    /\ config_json = EmptyConfig
    /\ runs = 0
    /\ crawl = NoCrawl
    /\ ui = NoUi
    /\ scraped = 0
    /\ last = NoRun
    /\ classified = {}
    /\ source = AnySource
    /\ dd_in = <<>>
    /\ dd_out = NotCalled
    /\ ret_call = NoCall
    /\ sv_call = NoCall
    /\ fetch = NoFetch

\* the call at main.py 385
VerifySchema ==
    /\ jobs' = verify_jobs_table_schema(jobs)
    /\ sv_call' = [called |-> TRUE, before |-> jobs]
    /\ UNCHANGED <<now, filtered_jobs, config_json, runs, scraped, last, classified,
                   source, dd_in, dd_out, ret_call, fetch, crawl, ui>>

NextSchema == VerifySchema

SpecSchema == InitSchema /\ [][NextSchema]_vars

\* ---- the pipeline and the web UI on one database ------------------------
MaxUserActions == 2     \* status updates the user makes in one behaviour

\* verify_db_schema (db_schema_service.py 21-56), the part on the jobs table:
\* ALTER TABLE jobs ADD COLUMN for cover_letter, resume, source (DEFAULT
\* 'linkedin'), saved (DEFAULT 0) and hidden (DEFAULT 0), each when the table
\* lacks it; on a database without a jobs table the first ALTER raises
verify_db_schema(table) ==
    IF ~table.exists THEN table
    ELSE [table EXCEPT
            !.cols = @ \cup {"cover_letter", "resume", "source", "saved", "hidden"},
            !.rows = [i \in DOMAIN @ |->
                        [@[i] EXCEPT
                           !.source = IF "source" \in table.cols THEN @ ELSE "linkedin",
                           !.saved = IF "saved" \in table.cols THEN @ ELSE 0,
                           !.hidden = IF "hidden" \in table.cols THEN @ ELSE 0]]]

\* the fields update_job_status is called for
StatusFields == {"applied", "saved", "interview", "rejected", "hidden"}

\* update_job_status: UPDATE jobs SET {field} = ? WHERE id = ?; the statement
\* raises when the table or the column does not exist
update_job_status(table, job_id, field, value) ==
    IF ~table.exists \/ field \notin table.cols THEN table
    ELSE [table EXCEPT !.rows = [i \in DOMAIN @ |->
            IF @[i].id = job_id THEN [@[i] EXCEPT ![field] = value] ELSE @[i]]]

UiA == RawCard(S_Dev, S_Acme, DateIso(0), U_1)
UiB == RawCard(S_QA, S_Acme, DateIso(0), U_2)
UiBatches == {<<>>, <<UiA>>, <<UiB>>}
UiResponses == {RespNoDiv, RespPage(D_Banned)}
\* every card stays inside the scrape window; rows are hidden after one day
UiConfig == Config(<<W_Gig>>, <<>>, <<>>, <<>>, <<>>, MaxNow, 1)

InitUi ==
    /\ now = 0
    /\ jobs = NoTable
    /\ filtered_jobs = NoTable
    /\ config_json = UiConfig
    /\ runs = 0
    /\ crawl = NoCrawl
    /\ ui = [started |-> TRUE, touched |-> {}, actions |-> 0]
    /\ scraped = 0
    /\ last = NoRun
    /\ classified = {}
    /\ source = AnySource
    /\ dd_in = <<>>
    /\ dd_out = NotCalled
    /\ ret_call = NoCall
    /\ sv_call = NoCall
    /\ fetch = NoFetch

\* python main.py config.json
MainUi ==
    \E cards \in UiBatches :
       /\ scraped + Len(cards) <= MaxScraped
       /\ \E resp \in [Range(cards) -> UiResponses] : MainRun(cards, resp, "none")

\* python app.py starts: verify_db_schema(config) (app.py 1629)
VerifyDbSchema ==
    /\ jobs' = verify_db_schema(jobs)
    /\ UNCHANGED <<now, filtered_jobs, config_json, runs, scraped, last, classified,
                   source, dd_in, dd_out, ret_call, sv_call, fetch, crawl, ui>>

\* the user sets or clears a status flag of a row; ui.touched keeps the ids
UpdateJobStatus ==
    /\ ui.actions < MaxUserActions
    /\ \E i \in DOMAIN jobs.rows, field \in StatusFields, value \in {0, 1} :
          /\ jobs' = update_job_status(jobs, jobs.rows[i].id, field, value)
          /\ ui' = [ui EXCEPT !.touched = @ \cup {jobs.rows[i].id}, !.actions = @ + 1]
    /\ UNCHANGED <<now, filtered_jobs, config_json, runs, scraped, last, classified,
                   source, dd_in, dd_out, ret_call, sv_call, fetch, crawl>>

NextUi == MainUi \/ VerifyDbSchema \/ UpdateJobStatus \/ Tick

SpecUi == InitUi /\ [][NextUi]_vars

\* ---- execute_search ------------------------------------------------------
\* POST /api/search/execute.  Flask handles each request in a thread of its
\* own, and run_search runs in the thread the handler starts: the statements
\* of the handlers and of the run_search threads interleave.
MaxRequests == 3        \* execute_search requests in one behaviour
Requests == 1..MaxRequests

\* ui.req[r]: where request r is: "new" (not yet arrived), "checked" (past
\* the test of search_status["running"]), "refused" (answered 400), "spawned"
\* (answered "Search started", its run_search thread started), "marked"
\* (the thread has set running), "process" (the thread has started main.py),
\* "done" (the thread has ended)
InitSearch ==
    /\ now = 0
    /\ jobs = NoTable
    /\ filtered_jobs = NoTable
    /\ config_json = EmptyConfig
    /\ runs = 0
    /\ crawl = NoCrawl
    /\ ui = [started |-> TRUE, running |-> FALSE, req |-> [r \in Requests |-> "new"]]
    /\ scraped = 0
    /\ last = NoRun
    /\ classified = {}
    /\ source = AnySource
    /\ dd_in = <<>>
    /\ dd_out = NotCalled
    /\ ret_call = NoCall
    /\ sv_call = NoCall
    /\ fetch = NoFetch

SearchUnchanged ==
    UNCHANGED <<now, jobs, filtered_jobs, config_json, runs, scraped, last, classified,
                source, dd_in, dd_out, ret_call, sv_call, fetch, crawl>>

\* if search_status["running"]: return jsonify({"error": ...}), 400
RequestRefused ==
    /\ \E r \in Requests :
          /\ ui.req[r] = "new"
          /\ ui.running
          /\ ui' = [ui EXCEPT !.req[r] = "refused"]
    /\ SearchUnchanged

\* the test of search_status["running"] fails and the handler goes on
RequestPassesCheck ==
    /\ \E r \in Requests :
          /\ ui.req[r] = "new"
          /\ ~ui.running
          /\ ui' = [ui EXCEPT !.req[r] = "checked"]
    /\ SearchUnchanged

\* thread.start(); return jsonify({"success": True, ...})
ThreadStarted ==
    /\ \E r \in Requests :
          /\ ui.req[r] = "checked"
          /\ ui' = [ui EXCEPT !.req[r] = "spawned"]
    /\ SearchUnchanged

\* run_search: search_status["running"] = True
ThreadMarksRunning ==
    /\ \E r \in Requests :
          /\ ui.req[r] = "spawned"
          /\ ui' = [ui EXCEPT !.req[r] = "marked", !.running = TRUE]
    /\ SearchUnchanged

\* run_search: subprocess.Popen([sys.executable, '-u', 'main.py', 'config.json'])
ProcessStarted ==
    /\ \E r \in Requests :
          /\ ui.req[r] = "marked"
          /\ ui' = [ui EXCEPT !.req[r] = "process"]
    /\ SearchUnchanged

\* the process exits; finally: search_status["running"] = False
ProcessExited ==
    /\ \E r \in Requests :
          /\ ui.req[r] = "process"
          /\ ui' = [ui EXCEPT !.req[r] = "done", !.running = FALSE]
    /\ SearchUnchanged

NextSearch ==
    \/ RequestRefused \/ RequestPassesCheck \/ ThreadStarted
    \/ ThreadMarksRunning \/ ProcessStarted \/ ProcessExited

SpecSearch == InitSearch /\ [][NextSearch]_vars

\* ---- runs under a language allow-list ------------------------------------
\* config.json with and without a languages list, with and without 'en' in it
LanguageConfigs ==
    { Config(<<W_Gig>>, <<>>, <<>>, <<>>, <<>>, 1, 1),
      Config(<<W_Gig>>, <<>>, <<>>, <<"en">>, <<>>, 1, 1),
      Config(<<W_Gig>>, <<>>, <<>>, <<"fr">>, <<>>, 1, 1),
      Config(<<>>, <<>>, <<>>, <<"fr", "en">>, <<>>, 1, 1),
      Config(<<>>, <<>>, <<W_dev>>, <<"fr", "de">>, <<>>, 1, 1) }

InitLanguages ==
    /\ now = 0
    /\ jobs = NoTable
    /\ filtered_jobs = NoTable
    /\ config_json \in LanguageConfigs
    /\ runs = 0
    /\ crawl = NoCrawl
    /\ ui = NoUi
    /\ scraped = 0
    /\ last = NoRun
    /\ classified = {}
    /\ source = AnySource
    /\ dd_in = <<>>
    /\ dd_out = NotCalled
    /\ ret_call = NoCall
    /\ sv_call = NoCall
    /\ fetch = NoFetch

NextLanguages == Main \/ Tick

SpecLanguages == InitLanguages /\ [][NextLanguages]_vars

\* ---- get_with_retry on its own ----------------------------------------
DefaultRetries == 3     \* retries: int = 3

\* what requests.get / BeautifulSoup do on one attempt
Outcomes == {"ok", "timeout", "error"}

\* for i in range(retries)
LoopRunsOnceMore(f) == f.i <= f.retries
LoopContinues(f) == f.i < f.retries

\* get_with_retry(url, retries) is called; net[k] is what the k-th request
\* for the url would meet
InitFetch ==
    /\ now = 0
    /\ jobs = NoTable
    /\ filtered_jobs = NoTable
    /\ config_json = EmptyConfig
    /\ runs = 0
    /\ crawl = NoCrawl
    /\ ui = NoUi
    /\ scraped = 0
    /\ last = NoRun
    /\ classified = {}
    /\ source = AnySource
    /\ dd_in = <<>>
    /\ dd_out = NotCalled
    /\ ret_call = NoCall
    /\ sv_call = NoCall
    /\ \E retries \in (0..MaxRetries) \cup {DefaultRetries} :
       \E net \in [1..(MaxRetries + 1) -> Outcomes] :
          fetch = [started |-> TRUE, retries |-> retries, net |-> net, i |-> 0,
                   log |-> <<>>, done |-> FALSE, result |-> [kind |-> "pending"]]

FetchUnchanged ==
    UNCHANGED <<now, jobs, filtered_jobs, config_json, runs, scraped, last, classified,
                source, dd_in, dd_out, ret_call, sv_call, crawl, ui>>

\* the try body: the request is answered and parsed, the document is returned
RequestSucceeds ==
    /\ fetch.started /\ ~fetch.done /\ LoopContinues(fetch)
    /\ fetch.net[fetch.i + 1] = "ok"
    /\ fetch' = [fetch EXCEPT !.log = Append(@, "ok"), !.done = TRUE,
                              !.result = [kind |-> "soup", request |-> fetch.i + 1]]
    /\ FetchUnchanged

\* except requests.exceptions.Timeout: print, sleep(delay), next iteration
RequestTimesOut ==
    /\ fetch.started /\ ~fetch.done /\ LoopContinues(fetch)
    /\ fetch.net[fetch.i + 1] = "timeout"
    /\ fetch' = [fetch EXCEPT !.log = Append(@, "timeout"), !.i = @ + 1]
    /\ FetchUnchanged

\* except Exception: print, and the loop goes on to its next iteration
RequestRaises ==
    /\ fetch.started /\ ~fetch.done /\ LoopContinues(fetch)
    /\ fetch.net[fetch.i + 1] = "error"
    /\ fetch' = [fetch EXCEPT !.log = Append(@, "error"), !.i = @ + 1]
    /\ FetchUnchanged

\* the loop is over: return None
ReturnNone ==
    /\ fetch.started /\ ~fetch.done /\ ~LoopContinues(fetch)
    /\ fetch' = [fetch EXCEPT !.done = TRUE, !.result = [kind |-> "none"]]
    /\ FetchUnchanged

NextFetch == RequestSucceeds \/ RequestTimesOut \/ RequestRaises \/ ReturnNone

SpecFetch == InitFetch /\ [][NextFetch]_vars

\* ---- a run, request by request ----------------------------------------
\* get_job_cards (linkedin_scraper.py 41-68) and the loop of main (main.py
\* 403-456), each get_with_retry call unfolded into its requests.  The steps
\* of main that follow the loop (filter, save, CSV, cleanup: MainRun) make
\* no request.
MaxPageFetches == 4     \* rounds * len(search_queries) * pages_to_scrape of one run
MaxRounds == 2          \* config['rounds']
MaxQueries == 2         \* len(config['search_queries'])
MaxPagesToScrape == 2   \* config['pages_to_scrape']

\* the cards on a page of search results
CrawlA == RawCard(S_Dev, S_Acme, DateIso(0), U_1)
CrawlB == RawCard(S_QA, S_Acme, DateText(0), U_2)
CrawlC == RawCard(S_QA, S_Beta, DateIso(0), U_2)
CrawlPages == {<<>>, <<CrawlA>>, <<CrawlB>>, <<CrawlC>>}

\* range(0, rounds) x enumerate(search_queries, 1) x range(0, pages_to_scrape):
\* the position after (round_num, query_idx, page_num)
NextPage(c) ==
    IF c.page_num + 1 < c.pages_to_scrape
    THEN [c EXCEPT !.page_num = @ + 1, !.i = 0]
    ELSE IF c.query_idx < c.queries
         THEN [c EXCEPT !.query_idx = @ + 1, !.page_num = 0, !.i = 0]
         ELSE [c EXCEPT !.round_num = @ + 1, !.query_idx = 1, !.page_num = 0, !.i = 0]

\* a page loop that a failed page ends (break)
NextQueryAfterFailedPage(c) ==
    IF c.query_idx < c.queries
    THEN [c EXCEPT !.query_idx = @ + 1, !.page_num = 0, !.i = 0]
    ELSE [c EXCEPT !.round_num = @ + 1, !.query_idx = 1, !.page_num = 0, !.i = 0]
\* else: print("[ERROR] Failed to scrape page ..."), and the loop goes on
AfterFailedPage(c) == NextPage(c)

\* the three loops of get_job_cards have a page to fetch
PagesLeft(c) ==
    c.round_num < c.rounds /\ c.queries > 0 /\ c.pages_to_scrape > 0

InitCrawl ==
    /\ now = 0
    /\ jobs = NoTable
    /\ filtered_jobs = NoTable
    /\ config_json = EmptyConfig
    /\ runs = 0
    /\ ui = NoUi
    /\ scraped = 0
    /\ last = NoRun
    /\ classified = {}
    /\ source = AnySource
    /\ dd_in = <<>>
    /\ dd_out = NotCalled
    /\ ret_call = NoCall
    /\ sv_call = NoCall
    /\ fetch = NoFetch
    /\ \E rounds \in 0..MaxRounds, queries \in 0..MaxQueries, pages \in 0..MaxPagesToScrape :
          /\ rounds * queries * pages <= MaxPageFetches
          /\ crawl = [started |-> TRUE, pc |-> "cards",
                      rounds |-> rounds, queries |-> queries, pages_to_scrape |-> pages,
                      retries |-> DefaultRetries,
                      round_num |-> 0, query_idx |-> 1, page_num |-> 0, i |-> 0,
                      requests |-> 0, page_log |-> <<>>, all_jobs |-> <<>>,
                      new_jobs |-> <<>>, idx |-> 1, detail_calls |-> <<>>,
                      ended |-> "running"]

CrawlUnchanged ==
    UNCHANGED <<now, jobs, filtered_jobs, config_json, runs, scraped, last, classified,
                source, dd_in, dd_out, ret_call, sv_call, fetch, ui>>

\* get_with_retry for a search page: the request is answered, the cards of
\* the page are parsed and appended
PageRequestSucceeds ==
    /\ crawl.started /\ crawl.pc = "cards" /\ PagesLeft(crawl)
    /\ LoopContinues(crawl)
    /\ \E page \in CrawlPages :
          crawl' = NextPage([crawl EXCEPT
                      !.requests = @ + 1,
                      !.page_log = Append(@, [round_num |-> crawl.round_num,
                                              query_idx |-> crawl.query_idx,
                                              page_num |-> crawl.page_num,
                                              soup |-> TRUE, jobs |-> page]),
                      !.all_jobs = @ \o page])
    /\ CrawlUnchanged

\* the request times out or raises: the retry loop goes on
PageRequestFails ==
    /\ crawl.started /\ crawl.pc = "cards" /\ PagesLeft(crawl)
    /\ LoopContinues(crawl)
    /\ crawl' = [crawl EXCEPT !.requests = @ + 1, !.i = @ + 1]
    /\ CrawlUnchanged

\* get_with_retry returns None: the page gives no card
PageFetchReturnsNone ==
    /\ crawl.started /\ crawl.pc = "cards" /\ PagesLeft(crawl)
    /\ ~LoopContinues(crawl)
    /\ crawl' = AfterFailedPage([crawl EXCEPT
                   !.page_log = Append(@, [round_num |-> crawl.round_num,
                                           query_idx |-> crawl.query_idx,
                                           page_num |-> crawl.page_num,
                                           soup |-> FALSE, jobs |-> <<>>])])
    /\ CrawlUnchanged

\* get_job_cards returns; get_jobcards, create_connection and find_new_jobs
\* follow, any of the first two may fail (main.py 364-391)
CardsReturned ==
    /\ crawl.started /\ crawl.pc = "cards" /\ ~PagesLeft(crawl)
    /\ \E fault \in {"none", "scrape", "db"} :
          IF AbortsAfterScrape(fault) \/ AbortsAfterConnect(fault)
          THEN crawl' = [crawl EXCEPT !.pc = "end", !.ended = "aborted"]
          ELSE \E all_jobs \in {get_jobcards(config_json, crawl.all_jobs)} :
               \E new_jobs \in {find_new_jobs(all_jobs,
                                              verify_jobs_table_schema(jobs),
                                              verify_jobs_table_schema(filtered_jobs))} :
                  crawl' = [crawl EXCEPT !.pc = "details", !.i = 0, !.new_jobs = new_jobs]
    /\ CrawlUnchanged

\* the job the loop of main is at
CrawlJob == crawl.new_jobs[crawl.idx]
JobsLeft == crawl.started /\ crawl.pc = "details" /\ crawl.idx <= Len(crawl.new_jobs)
NextJob(c) == [c EXCEPT !.idx = @ + 1, !.i = 0]
\* a loop that fetches again the job whose fetch returned None
SameJobAgain(c) == [c EXCEPT !.i = 0]
\* main.py 434-437: "Job description not available, skipping...", continue
AfterUnfetchedJob(c) == NextJob(c)

\* the date checks of the loop skip the job (main.py 405-419)
DetailSkipped ==
    /\ JobsLeft
    /\ ~ProcessJob(CrawlJob, config_json, RespNone, now).fetched
    /\ crawl' = NextJob(crawl)
    /\ CrawlUnchanged

\* get_with_retry for the detail page of the job: the request is answered
DetailRequestSucceeds ==
    /\ JobsLeft
    /\ ProcessJob(CrawlJob, config_json, RespNone, now).fetched
    /\ LoopContinues(crawl)
    /\ crawl' = NextJob([crawl EXCEPT
                   !.requests = @ + 1,
                   !.detail_calls = IF crawl.i = 0 THEN Append(@, crawl.idx) ELSE @])
    /\ CrawlUnchanged

\* the request times out or raises: the retry loop goes on
DetailRequestFails ==
    /\ JobsLeft
    /\ ProcessJob(CrawlJob, config_json, RespNone, now).fetched
    /\ LoopContinues(crawl)
    /\ crawl' = [crawl EXCEPT
                   !.requests = @ + 1, !.i = @ + 1,
                   !.detail_calls = IF crawl.i = 0 THEN Append(@, crawl.idx) ELSE @]
    /\ CrawlUnchanged

\* get_with_retry returns None: the job is skipped (main.py 434-437)
DetailFetchReturnsNone ==
    /\ JobsLeft
    /\ ProcessJob(CrawlJob, config_json, RespNone, now).fetched
    /\ ~LoopContinues(crawl)
    /\ crawl' = AfterUnfetchedJob(crawl)
    /\ CrawlUnchanged

\* the loop is over; the rest of main makes no request
RunEnds ==
    /\ crawl.started /\ crawl.pc = "details" /\ crawl.idx > Len(crawl.new_jobs)
    /\ crawl' = [crawl EXCEPT !.pc = "end", !.ended = "completed"]
    /\ CrawlUnchanged

NextCrawl ==
    \/ PageRequestSucceeds \/ PageRequestFails \/ PageFetchReturnsNone
    \/ CardsReturned
    \/ DetailSkipped \/ DetailRequestSucceeds \/ DetailRequestFails
    \/ DetailFetchReturnsNone
    \/ RunEnds

SpecCrawl == InitCrawl /\ [][NextCrawl]_vars

\* each step of a run is taken once it can be: the interpreter runs the
\* program, and every request returns, raises or times out.  For the return
\* of get_job_cards, WF_vars(CardsReturned) is written out as what it means
\* here, the run does not stay for ever where CardsReturned is enabled.
PageStep == PageRequestSucceeds \/ PageRequestFails \/ PageFetchReturnsNone
DetailStep ==
    DetailSkipped \/ DetailRequestSucceeds \/ DetailRequestFails \/ DetailFetchReturnsNone
AtCardsReturn == crawl.started /\ crawl.pc = "cards" /\ ~PagesLeft(crawl)
SpecCrawlFair ==
    /\ SpecCrawl
    /\ WF_vars(PageStep)
    /\ WF_vars(DetailStep)
    /\ WF_vars(RunEnds)
    /\ []<>(~AtCardsReturn)

\* ======================================================================
\* Properties
\* ======================================================================
ContainsAnyWord(words, text) ==
    \E i \in DOMAIN words : Contains(Lower(words[i]), Lower(text))
SameUrlOrTriple(a, b) ==
    \/ a.job_url = b.job_url
    \/ (a.title = b.title /\ a.company = b.company /\ a.date = b.date)
MatchesSomeRow(job, jt, ft) ==
    \/ \E i \in DOMAIN jt.rows : SameUrlOrTriple(jt.rows[i], job)
    \/ \E i \in DOMAIN ft.rows : SameUrlOrTriple(ft.rows[i], job)
NewRows(before, after) ==
    {after.rows[i] : i \in {j \in DOMAIN after.rows : after.rows[j].id \notin Ids(before)}}

\* C1: when the pipeline runs again with the same config against a source
\* that returns the same cards and the same detail pages, the later run
\* inserts no row into the accepted table and no row into the rejected table.
C1_SecondRunInsertsNothing ==
    runs >= 2 => (last.added = {} /\ last.added_filtered = {})

\* the run was repeated after a run that put rows into both tables
C1_Witness ==
    /\ runs >= 2
    /\ last.all_jobs # <<>>
    /\ jobs.rows # <<>>
    /\ filtered_jobs.rows # <<>>

\* C2: in a run, a card of the batch is left out of the new-jobs list if and
\* only if its job_url or its (title, company, date) equals that of some row
\* the accepted or the rejected table held when the run started; and every
\* row the run inserts comes from a card that matched no row.
C2_CrossBatchDedup ==
    [][runs' = runs + 1 =>
        /\ \A i \in DOMAIN last'.all_jobs :
              (last'.all_jobs[i] \notin Range(last'.new_jobs))
                 <=> MatchesSomeRow(last'.all_jobs[i], jobs, filtered_jobs)
        /\ \A r \in NewRows(jobs, jobs') \cup NewRows(filtered_jobs, filtered_jobs') :
              ~MatchesSomeRow(r, jobs, filtered_jobs)]_vars

\* a run left out a card that matched a stored row by job_url alone and kept
\* another card of the same batch
C2_Witness ==
    /\ last.ran
    /\ last.new_jobs # <<>>
    /\ \E i \in DOMAIN last.all_jobs :
          /\ last.all_jobs[i] \notin Range(last.new_jobs)
          /\ \E k \in DOMAIN jobs.rows :
                /\ jobs.rows[k].job_url = last.all_jobs[i].job_url
                /\ jobs.rows[k].title # last.all_jobs[i].title
                /\ jobs.rows[k].date_loaded.t < last.t

\* C3: remove_duplicates returns exactly one job for each (title, company)
\* pair of the batch, whatever the job_url and date of the collapsed jobs,
\* and the job it returns for a pair is the first of the pair in the batch.
C3_OnePerPairFirstInScrapeOrder ==
    dd_out.called =>
        /\ \A i, j \in DOMAIN dd_out.result :
              (dd_out.result[i].title = dd_out.result[j].title
                 /\ dd_out.result[i].company = dd_out.result[j].company) => i = j
        /\ \A k \in DOMAIN dd_in :
              \E i \in DOMAIN dd_out.result :
                 /\ dd_out.result[i].title = dd_in[k].title
                 /\ dd_out.result[i].company = dd_in[k].company
        /\ \A i \in DOMAIN dd_out.result :
              \E k \in DOMAIN dd_in :
                 /\ dd_in[k] = dd_out.result[i]
                 /\ \A m \in 1..(k - 1) :
                       ~(dd_in[m].title = dd_in[k].title /\ dd_in[m].company = dd_in[k].company)

\* a batch of three: two jobs of one pair that differ in job_url and date,
\* after a job of a pair that sorts later
C3_Witness ==
    /\ dd_out.called
    /\ Len(dd_in) = 3
    /\ Len(dd_out.result) = 2
    /\ StrLess(dd_in[2].title, dd_in[1].title)
    /\ dd_in[2].title = dd_in[3].title
    /\ dd_in[2].company = dd_in[3].company
    /\ dd_in[2].job_url # dd_in[3].job_url
    /\ dd_in[2].date # dd_in[3].date

C5_BannedPostingWrittenToRejected ==
    last.ran =>
        \A i \in DOMAIN last.job_list :
            ContainsAnyWord(config_json.desc_words, last.job_list[i].job_description)
               => \E k \in DOMAIN filtered_jobs.rows :
                     /\ filtered_jobs.rows[k].job_url = last.job_list[i].job_url
                     /\ Triple(filtered_jobs.rows[k]) = Triple(last.job_list[i])

\* C6: a run requests the detail page of no posting that an earlier run
\* classified as accepted or as rejected.
C6_ClassifiedNeverRefetched ==
    [][runs' = runs + 1 =>
        \A i \in DOMAIN last'.new_jobs :
            last'.fetched[i] => CardOf(last'.new_jobs[i]) \notin classified]_vars

\* C7 as stated: no row of the accepted table has the job_url or the
\* (title, company, date) of a row of the rejected table, and no run inserts
\* into one table a row that matches a row the other table held.
C7_ExclusiveByUrlOrTriple ==
    /\ [](\A i \in DOMAIN jobs.rows : \A k \in DOMAIN filtered_jobs.rows :
             ~SameUrlOrTriple(jobs.rows[i], filtered_jobs.rows[k]))
    /\ [][/\ \A r \in NewRows(jobs, jobs') : \A k \in DOMAIN filtered_jobs.rows :
                ~SameUrlOrTriple(r, filtered_jobs.rows[k])
          /\ \A r \in NewRows(filtered_jobs, filtered_jobs') : \A k \in DOMAIN jobs.rows :
                ~SameUrlOrTriple(r, jobs.rows[k])]_vars

\* C7, amended: no (title, company, date) is in both tables; a run never
\* inserts into one table a row whose job_url or (title, company, date) is
\* that of a row the other table held when the run started; two rows of one
\* job_url are in different tables only when one run inserted both.
C7_ExclusiveAcrossRuns ==
    /\ [](\A i \in DOMAIN jobs.rows : \A k \in DOMAIN filtered_jobs.rows :
             /\ Triple(jobs.rows[i]) # Triple(filtered_jobs.rows[k])
             /\ jobs.rows[i].job_url = filtered_jobs.rows[k].job_url
                   => jobs.rows[i].date_loaded = filtered_jobs.rows[k].date_loaded)
    /\ [][/\ \A r \in NewRows(jobs, jobs') : \A k \in DOMAIN filtered_jobs.rows :
                ~SameUrlOrTriple(r, filtered_jobs.rows[k])
          /\ \A r \in NewRows(filtered_jobs, filtered_jobs') : \A k \in DOMAIN jobs.rows :
                ~SameUrlOrTriple(r, jobs.rows[k])]_vars

\* both tables hold rows and a later run was offered a card of a rejected row
C7_Witness ==
    /\ last.ran
    /\ jobs.rows # <<>>
    /\ \E i \in DOMAIN last.cards : \E k \in DOMAIN filtered_jobs.rows :
          /\ filtered_jobs.rows[k].job_url = last.cards[i].job_url
          /\ filtered_jobs.rows[k].title = last.cards[i].title
          /\ filtered_jobs.rows[k].date_loaded.t < last.t

\* C8: after a cleanup with a positive threshold, every row that had
\* applied = 0, saved = 0 (or no saved column), hidden = 0 and a date_loaded
\* older than the time of the call minus the threshold has hidden = 1.
StampTime(s) == IF s.fmt = "ymd" THEN s.t * TicksPerDay ELSE s.t
OlderThanThreshold(r, call) ==
    /\ r.date_loaded.fmt \in {"ymd", "ymd_hms", "ymd_hms_f"}
    /\ StampTime(r.date_loaded)
          < call.t - config_json.delete_unapplied_jobs_after_days * TicksPerDay
C8_EligibleRowsHidden ==
    (ret_call.called /\ config_json.delete_unapplied_jobs_after_days > 0) =>
        \A i \in DOMAIN ret_call.before.rows :
            (/\ ret_call.before.rows[i].applied = 0
             /\ ("saved" \in ret_call.before.cols => ret_call.before.rows[i].saved = 0)
             /\ ret_call.before.rows[i].hidden = 0
             /\ OlderThanThreshold(ret_call.before.rows[i], ret_call))
               => (jobs.rows[i].id = ret_call.before.rows[i].id /\ jobs.rows[i].hidden = 1)

\* one cleanup hid two eligible rows whose date_loaded formats differ
C8_Witness ==
    /\ ret_call.called
    /\ config_json.delete_unapplied_jobs_after_days > 0
    /\ Len(jobs.rows) = 2
    /\ \A i \in DOMAIN jobs.rows :
          /\ ret_call.before.rows[i].hidden = 0
          /\ ret_call.before.rows[i].saved = 0
          /\ jobs.rows[i].hidden = 1
    /\ jobs.rows[1].date_loaded.fmt # jobs.rows[2].date_loaded.fmt

\* C9: a cleanup leaves the table's rows, ids and columns as they were
\* except for hidden; a row whose hidden it changed has hidden = 1 and had
\* neither applied = 1 nor saved = 1, and a date_loaded in a known format
\* that is not newer than the time of the call minus the threshold.
C9_OnlyHiddenOnlyEligible ==
    ret_call.called =>
        /\ jobs.exists = ret_call.before.exists
        /\ jobs.cols = ret_call.before.cols
        /\ Len(jobs.rows) = Len(ret_call.before.rows)
        /\ \A i \in DOMAIN ret_call.before.rows :
              /\ [jobs.rows[i] EXCEPT !.hidden = 0] = [ret_call.before.rows[i] EXCEPT !.hidden = 0]
              /\ jobs.rows[i].hidden # ret_call.before.rows[i].hidden =>
                    /\ jobs.rows[i].hidden = 1
                    /\ ret_call.before.rows[i].applied # 1
                    /\ ret_call.before.rows[i].saved # 1
                    /\ ret_call.before.rows[i].date_loaded.fmt \in {"ymd", "ymd_hms", "ymd_hms_f"}
                    /\ ~(StampTime(ret_call.before.rows[i].date_loaded)
                            > ret_call.t - config_json.delete_unapplied_jobs_after_days * TicksPerDay)

\* a cleanup hid a row and left alone an equally old row with saved = 1
C9_Witness ==
    /\ ret_call.called
    /\ Len(jobs.rows) = 2
    /\ \E i, k \in DOMAIN jobs.rows :
          /\ ret_call.before.rows[i].hidden = 0
          /\ jobs.rows[i].hidden = 1
          /\ jobs.rows[k].saved = 1
          /\ jobs.rows[k].hidden = 0
          /\ jobs.rows[k].date_loaded = jobs.rows[i].date_loaded

\* C10: no step removes a row from either table: the ids of the accepted
\* table and of the rejected table only grow.
C10_RowsNeverRemoved ==
    [][Ids(jobs) \subseteq Ids(jobs') /\ Ids(filtered_jobs) \subseteq Ids(filtered_jobs')]_vars

\* one run inserted a row into a table that held rows and its cleanup hid a row
C10_Witness ==
    /\ last.ran
    /\ last.added # {}
    /\ last.hid # {}
    /\ Ids(jobs) \ last.added # {}

\* C11: verify_jobs_table_schema on an existing table without the source
\* column adds that column and leaves the number of rows and every other
\* field of every row as it was; on a table that has the column, and on a
\* table that does not exist, it changes nothing.
C11_SchemaVerificationAdditive ==
    sv_call.called =>
        IF sv_call.before.exists /\ "source" \notin sv_call.before.cols
        THEN /\ jobs.exists
             /\ jobs.cols = sv_call.before.cols \cup {"source"}
             /\ Len(jobs.rows) = Len(sv_call.before.rows)
             /\ \A i \in DOMAIN sv_call.before.rows :
                   [jobs.rows[i] EXCEPT !.source = "absent"] = sv_call.before.rows[i]
        ELSE jobs = sv_call.before

\* the call ran on a table of two rows that lacked the column
C11_Witness ==
    /\ sv_call.called
    /\ "source" \notin sv_call.before.cols
    /\ Len(sv_call.before.rows) = 2
    /\ "source" \in jobs.cols
    /\ jobs.rows[1].source = "linkedin"

\* C12: once a request has raised an exception other than a timeout,
\* get_with_retry makes no further request for the url: that request is the
\* last one, and the call returns None.
C12_NoRequestAfterError ==
    fetch.started =>
        /\ \A k \in DOMAIN fetch.log : fetch.log[k] = "error" => k = Len(fetch.log)
        /\ (fetch.done /\ \E k \in DOMAIN fetch.log : fetch.log[k] = "error")
              => fetch.result.kind = "none"

\* C13: get_with_retry issues at most `retries` requests; no request follows
\* one that succeeded and the call returns the document of that request;
\* when every request timed out the call returns None; it ends with a
\* document or None, never otherwise.
C13_BoundedRetries ==
    fetch.started =>
        /\ Len(fetch.log) <= fetch.retries
        /\ \A k \in DOMAIN fetch.log : fetch.log[k] = "ok" => k = Len(fetch.log)
        /\ fetch.done =>
              /\ fetch.result.kind \in {"soup", "none"}
              /\ (fetch.log # <<>> /\ fetch.log[Len(fetch.log)] = "ok")
                    => fetch.result = [kind |-> "soup", request |-> Len(fetch.log)]
              /\ (\A k \in DOMAIN fetch.log : fetch.log[k] = "timeout")
                    => (fetch.result.kind = "none" /\ Len(fetch.log) = fetch.retries)

\* a call with the default retries whose every request timed out has returned
C13_Witness ==
    /\ fetch.started
    /\ fetch.done
    /\ fetch.retries = DefaultRetries
    /\ fetch.log = <<"timeout", "timeout", "timeout">>
    /\ fetch.result.kind = "none"

\* the date of the job is empty, is not YYYY-MM-DD, or is more than
\* days_to_scrape days before t
DateRejected(job, t) ==
    \/ job.date.kind # "iso"
    \/ job.date.day * TicksPerDay < t - config_json.days_to_scrape * TicksPerDay
RowsAddedByLastRun ==
    {jobs.rows[i] : i \in {k \in DOMAIN jobs.rows : jobs.rows[k].id \in last.added}}
    \cup {filtered_jobs.rows[i] :
             i \in {k \in DOMAIN filtered_jobs.rows :
                       filtered_jobs.rows[k].id \in last.added_filtered}}
LastStep == last.steps[Len(last.steps)]

\* C14: for a new job whose date is empty, is not YYYY-MM-DD or is older
\* than days_to_scrape days, the run requests no detail page and inserts no
\* row in either table.
C14_BadDateNeverFetched ==
    last.ran =>
        \A i \in DOMAIN last.new_jobs :
            DateRejected(last.new_jobs[i], last.t) =>
                /\ ~last.fetched[i]
                /\ \A r \in RowsAddedByLastRun : CardOf(r) # CardOf(last.new_jobs[i])

\* a run skipped a job whose date is not YYYY-MM-DD and fetched and stored
\* another job of the same batch
C14_Witness ==
    /\ last.ran
    /\ last.added # {}
    /\ \E i, k \in DOMAIN last.new_jobs :
          /\ last.new_jobs[i].date.kind = "text"
          /\ last.fetched[k]

\* C15: when the processing of a job raises, the run still ends normally,
\* every other job with an acceptable date whose detail page is served is
\* in jobs_to_add or filtered_list, and the save is reached.
C15_JobErrorDoesNotAbort ==
    (last.ran /\ \E i \in DOMAIN last.new_jobs : last.errors[i]) =>
        /\ last.ended = "normal"
        /\ last.fault # "frames" => \E n \in DOMAIN last.steps : last.steps[n] = "save"
        /\ \A k \in DOMAIN last.new_jobs :
              (/\ ~DateRejected(last.new_jobs[k], last.t)
               /\ last.resp[CardOf(last.new_jobs[k])].kind = "page")
                 => \E j \in Range(last.jobs_to_add) \cup Range(last.filtered_list) :
                       CardOf(j) = CardOf(last.new_jobs[k])

\* the first job of the loop raised and the second one was stored
C15_Witness ==
    /\ last.ran
    /\ Len(last.new_jobs) = 2
    /\ last.errors[1]
    /\ last.fetched[2]
    /\ last.added \cup last.added_filtered # {}

\* C16: a run that cannot open the database requests no detail page,
\* leaves both tables as they were, writes no CSV file and does not call the
\* retention cleanup.
C16_NoConnectionAborts ==
    [][(runs' = runs + 1 /\ last'.fault = "db") =>
          /\ last'.ended = "abort"
          /\ \A i \in DOMAIN last'.fetched : ~last'.fetched[i]
          /\ jobs' = jobs
          /\ filtered_jobs' = filtered_jobs
          /\ ~last'.csv
          /\ last'.cleanup_calls = 0]_vars

\* the run that could not connect was given cards while the accepted table
\* held a row that a cleanup would have hidden
C16_Witness ==
    /\ last.ran
    /\ last.fault = "db"
    /\ last.all_jobs # <<>>
    /\ config_json.delete_unapplied_jobs_after_days > 0
    /\ \E i \in DOMAIN jobs.rows :
          /\ jobs.rows[i].hidden = 0
          /\ jobs.rows[i].date_loaded.t
                < last.t - config_json.delete_unapplied_jobs_after_days * TicksPerDay

\* C17 as stated: a run in which anything but the database connection
\* fails goes on to the cleanup and the final summary.
C17_OnlyConnectionFailureAborts ==
    (last.ran /\ last.fault # "db") =>
        /\ last.ended = "normal"
        /\ LastStep = "summary"
        /\ last.cleanup_calls
              = (IF config_json.delete_unapplied_jobs_after_days > 0 THEN 1 ELSE 0)

\* C17, amended: a run aborts exactly when get_jobcards raises or the
\* database cannot be opened; after any other failure (a detail fetch that
\* raises, a final filter, a batch or a CSV export that raises, a save that
\* raises) it goes on to the cleanup and the final summary.
C17_ScrapeAndConnectionFailuresAbort ==
    last.ran =>
        /\ last.ended = "abort" <=> last.fault \in {"scrape", "db"}
        /\ last.ended = "normal" =>
              /\ LastStep = "summary"
              /\ last.cleanup_calls
                    = (IF config_json.delete_unapplied_jobs_after_days > 0 THEN 1 ELSE 0)

\* a run in which a detail fetch raised and a later step failed ended with
\* the cleanup
C17_Witness ==
    /\ last.ran
    /\ last.ended = "normal"
    /\ last.fault \in {"filter", "frames", "csv"}
    /\ \E i \in DOMAIN last.new_jobs : last.errors[i]
    /\ last.cleanup_calls = 1

\* C18 as stated: a job whose detail fetch returned None is in job_list with
\* the description "Could not fetch job description".
C18_UnfetchedJobKeptWithSentinel ==
    last.ran =>
        \A i \in DOMAIN last.new_jobs :
            (last.fetched[i] /\ last.resp[CardOf(last.new_jobs[i])].kind = "none") =>
                \E k \in DOMAIN last.job_list :
                    /\ CardOf(last.job_list[k]) = CardOf(last.new_jobs[i])
                    /\ last.job_list[k].job_description = CouldNotFetch

\* C18, amended: a job whose detail fetch returned None is skipped: it is
\* not in job_list and gets no row; no job with the description "Could not
\* fetch job description" is ever in job_list.  A job whose page was served
\* without a description is in job_list with "Could not find Job Description".
C18_UnfetchedJobSkipped ==
    last.ran =>
        /\ \A i \in DOMAIN last.new_jobs :
              /\ (last.fetched[i] /\ last.resp[CardOf(last.new_jobs[i])].kind = "none") =>
                    /\ \A k \in DOMAIN last.job_list :
                          CardOf(last.job_list[k]) # CardOf(last.new_jobs[i])
                    /\ \A r \in RowsAddedByLastRun : CardOf(r) # CardOf(last.new_jobs[i])
              /\ (/\ last.fetched[i]
                  /\ last.resp[CardOf(last.new_jobs[i])].kind = "page"
                  /\ ~last.resp[CardOf(last.new_jobs[i])].div) =>
                    \E k \in DOMAIN last.job_list :
                       /\ CardOf(last.job_list[k]) = CardOf(last.new_jobs[i])
                       /\ last.job_list[k].job_description = CouldNotFind
        /\ \A k \in DOMAIN last.job_list : last.job_list[k].job_description # CouldNotFetch

\* one job's detail fetch returned None while another job of the batch,
\* served without a description, was stored
C18_Witness ==
    /\ last.ran
    /\ last.added # {}
    /\ \E i \in DOMAIN last.new_jobs :
          last.fetched[i] /\ last.resp[CardOf(last.new_jobs[i])].kind = "none"
    /\ \E k \in DOMAIN last.job_list : last.job_list[k].job_description = CouldNotFind

\* C19: the last progress output of every run is the final summary.
C19_LastOutputIsSummary ==
    last.ran => LastStep = "summary"

\* C20 as stated: in a run that the database connection did not abort the
\* cleanup is called once, after the save, when the threshold is positive;
\* with a threshold of zero or less the run hides no row.
C20_CleanupOnceUnlessNoConnection ==
    (last.ran /\ last.fault # "db") =>
        IF config_json.delete_unapplied_jobs_after_days > 0
        THEN /\ last.cleanup_calls = 1
             /\ Len(last.steps) >= 2
             /\ last.steps[Len(last.steps) - 1] = "cleanup"
        ELSE last.hid = {}

\* C20, amended: in a run that neither a get_jobcards exception nor the
\* database connection aborted, the cleanup is called once when the
\* threshold is positive, after the save and the CSV export and also when
\* there were no new jobs; an aborted run does not call it; with a threshold
\* of zero or less the run does not call it and hides no row.
C20_CleanupOnceInUnabortedRuns ==
    last.ran =>
        /\ (last.ended = "normal" /\ config_json.delete_unapplied_jobs_after_days > 0) =>
              /\ last.cleanup_calls = 1
              /\ Cardinality({n \in DOMAIN last.steps : last.steps[n] = "cleanup"}) = 1
              /\ last.steps[Len(last.steps) - 1] = "cleanup"
        /\ last.ended = "abort" => (last.cleanup_calls = 0 /\ last.hid = {})
        /\ config_json.delete_unapplied_jobs_after_days <= 0 =>
              (last.cleanup_calls = 0 /\ last.hid = {})

\* a run that found no new job called the cleanup, which hid a row
C20_Witness ==
    /\ last.ran
    /\ last.ended = "normal"
    /\ last.new_jobs = <<>>
    /\ last.cleanup_calls = 1
    /\ last.hid # {}

\* the n-th (round, query, page) combination, in the order of the loops
NthCombination(c, n) ==
    [round_num |-> (n - 1) \div (c.queries * c.pages_to_scrape),
     query_idx |-> ((n - 1) % (c.queries * c.pages_to_scrape)) \div c.pages_to_scrape + 1,
     page_num |-> (n - 1) % c.pages_to_scrape]
PageFetches(c) == c.rounds * c.queries * c.pages_to_scrape
RECURSIVE CardsOfPages(_)
CardsOfPages(log) ==
    IF log = <<>> THEN <<>>
    ELSE (IF Head(log).soup THEN Head(log).jobs ELSE <<>>) \o CardsOfPages(Tail(log))

\* C21: get_job_cards fetches each (round, query, page) combination once, in
\* the order of the loops, also after a fetch that returned None, and
\* returns the cards of the fetched pages concatenated in that order.
C21_OneFetchPerCombination ==
    crawl.started =>
        /\ \A n \in DOMAIN crawl.page_log :
              /\ n <= PageFetches(crawl)
              /\ crawl.page_log[n].round_num = NthCombination(crawl, n).round_num
              /\ crawl.page_log[n].query_idx = NthCombination(crawl, n).query_idx
              /\ crawl.page_log[n].page_num = NthCombination(crawl, n).page_num
        /\ crawl.pc # "cards" =>
              /\ Len(crawl.page_log) = PageFetches(crawl)
              /\ crawl.all_jobs = CardsOfPages(crawl.page_log)

\* get_job_cards returned after four fetches, one that returned None
\* followed by one that gave cards
C21_Witness ==
    /\ crawl.started
    /\ crawl.pc # "cards"
    /\ Len(crawl.page_log) = MaxPageFetches
    /\ \E n \in 1..(Len(crawl.page_log) - 1) :
          /\ ~crawl.page_log[n].soup
          /\ crawl.page_log[n + 1].soup
          /\ crawl.page_log[n].query_idx = crawl.page_log[n + 1].query_idx
    /\ crawl.all_jobs # <<>>

\* C26: a run makes at most retries * (page fetches + new jobs) requests and
\* at most one detail fetch call per new job, and it reaches its end.
C26_RunTerminates ==
    /\ [](crawl.started =>
            /\ crawl.requests
                  <= crawl.retries * (PageFetches(crawl) + Len(crawl.new_jobs))
            /\ \A j, k \in DOMAIN crawl.detail_calls :
                  crawl.detail_calls[j] = crawl.detail_calls[k] => j = k
            /\ \A j \in DOMAIN crawl.detail_calls :
                  crawl.detail_calls[j] \in DOMAIN crawl.new_jobs)
    /\ <>(crawl.started /\ crawl.pc = "end" /\ crawl.ended \in {"completed", "aborted"})

\* a run completed after two detail fetch calls and some repeated requests
C26_Witness ==
    /\ crawl.started
    /\ crawl.ended = "completed"
    /\ Len(crawl.detail_calls) = 2
    /\ crawl.requests > PageFetches(crawl) + 2

\* C22: every row of the rejected table (every one of them inserted by a
\* run under this config) has a job_description that contains a word of the
\* config's desc_words; a posting dropped by another stage has no row there.
C22_RejectedOnlyByDescription ==
    \A i \in DOMAIN filtered_jobs.rows :
        ContainsAnyWord(config_json.desc_words, filtered_jobs.rows[i].job_description)

FlagsClear(table, r) ==
    /\ r.applied = 0
    /\ r.interview = 0
    /\ r.rejected = 0
    /\ r.hidden = 0
    /\ "saved" \in table.cols => r.saved = 0

\* C23: every row that a run inserts into either table has its status flags
\* equal to 0 when the run ends: applied, interview, rejected and hidden, and
\* saved when the table has that column.
C23_InsertedFlagsAreZero ==
    [][runs' = runs + 1 =>
          /\ \A r \in NewRows(jobs, jobs') : FlagsClear(jobs', r)
          /\ \A r \in NewRows(filtered_jobs, filtered_jobs') : FlagsClear(filtered_jobs', r)]_vars

\* C24: after a run that called the cleanup, every row of the accepted table
\* that no user action touched and whose date_loaded is older than the
\* threshold at the time of the run is hidden.
C24_OldUntouchedRowsHidden ==
    (last.ran /\ last.cleanup_calls = 1) =>
        \A i \in DOMAIN jobs.rows :
            (/\ jobs.rows[i].id \notin ui.touched
             /\ jobs.rows[i].date_loaded.t
                   < last.t - config_json.delete_unapplied_jobs_after_days * TicksPerDay)
               => jobs.rows[i].hidden = 1

\* C25: a run leaves every row that either table held before it as it was,
\* in its place, except that the hidden flag of a row of the accepted table
\* may become 1.
C25_RunKeepsExistingRows ==
    [][runs' = runs + 1 =>
          /\ Len(jobs'.rows) >= Len(jobs.rows)
          /\ \A i \in DOMAIN jobs.rows :
                \/ jobs'.rows[i] = jobs.rows[i]
                \/ jobs'.rows[i] = [jobs.rows[i] EXCEPT !.hidden = 1]
          /\ Len(filtered_jobs'.rows) >= Len(filtered_jobs.rows)
          /\ \A i \in DOMAIN filtered_jobs.rows :
                filtered_jobs'.rows[i] = filtered_jobs.rows[i]]_vars

\* a run met again the posting of a row on which the user had set the
\* interview flag, and its cleanup hid that row
C25_Witness ==
    /\ last.ran
    /\ runs >= 2
    /\ \E i \in DOMAIN jobs.rows :
          /\ jobs.rows[i].id \in ui.touched
          /\ jobs.rows[i].interview = 1
          /\ jobs.rows[i].id \in last.hid
          /\ \E k \in DOMAIN last.cards : last.cards[k].job_url = jobs.rows[i].job_url

\* C27 as stated: no two rows of the accepted table have the same non-empty
\* job_url, and no two have the same (title, company, date).
C27_UrlIsKeyOfAccepted ==
    \A i, k \in DOMAIN jobs.rows :
        i # k =>
            /\ Triple(jobs.rows[i]) # Triple(jobs.rows[k])
            /\ jobs.rows[i].job_url # S_Empty => jobs.rows[i].job_url # jobs.rows[k].job_url

\* C27, amended: no two rows of the accepted table have the same (title,
\* company, date); a run never inserts a row whose job_url or (title,
\* company, date) is that of a row the table held when the run started; two
\* rows of one job_url were inserted by one run.
C27_UrlIsKeyAcrossRuns ==
    /\ [](\A i, k \in DOMAIN jobs.rows :
             i # k =>
                /\ Triple(jobs.rows[i]) # Triple(jobs.rows[k])
                /\ jobs.rows[i].job_url = jobs.rows[k].job_url
                      => jobs.rows[i].date_loaded = jobs.rows[k].date_loaded)
    /\ [][\A r \in NewRows(jobs, jobs') : \A k \in DOMAIN jobs.rows :
             ~SameUrlOrTriple(r, jobs.rows[k])]_vars

\* a later run was offered a card with the job_url of an accepted row under
\* another title, and the accepted table holds two rows
C27_Witness ==
    /\ last.ran
    /\ runs >= 2
    /\ Len(jobs.rows) >= 2
    /\ \E i \in DOMAIN last.cards : \E k \in DOMAIN jobs.rows :
          /\ jobs.rows[k].id \notin last.added
          /\ jobs.rows[k].job_url = last.cards[i].job_url
          /\ jobs.rows[k].title # last.cards[i].title

\* C28: after a run that reached the save, every posting of jobs_to_add has
\* a row in the accepted table and every posting of filtered_list has a row
\* in the rejected table.
C28_BatchesAreSaved ==
    (last.ran /\ \E n \in DOMAIN last.steps : last.steps[n] = "save") =>
        /\ \A i \in DOMAIN last.jobs_to_add :
              \E k \in DOMAIN jobs.rows : Triple(jobs.rows[k]) = Triple(last.jobs_to_add[i])
        /\ \A i \in DOMAIN last.filtered_list :
              \E k \in DOMAIN filtered_jobs.rows :
                 Triple(filtered_jobs.rows[k]) = Triple(last.filtered_list[i])

\* C29: at most one pipeline process runs at a time, and of the requests
\* that arrive while a search started by another request has not ended, none
\* starts a process.
C29_OneSearchAtATime ==
    Cardinality({r \in Requests : ui.req[r] = "process"}) <= 1

\* C30: under a languages list that is not empty and does not hold 'en', a
\* run keeps no card, fetches no description and inserts no row in either
\* table.
C30_NoEnglishNoRows ==
    (last.ran /\ Len(config_json.languages) > 0 /\ "en" \notin Range(config_json.languages))
        => /\ last.all_jobs = <<>>
           /\ last.new_jobs = <<>>
           /\ last.fetched = <<>>
           /\ Ids(jobs) = {}
           /\ Ids(filtered_jobs) = {}

\* a run under the list ['fr'] whose scrape returned a card whose page is french
C30_Witness ==
    /\ last.ran
    /\ config_json.languages = <<"fr">>
    /\ \E c \in Range(last.cards) : last.resp[c] = RespPage(D_Fr)
    /\ last.all_jobs = <<>>
    /\ Ids(jobs) = {}

====
